---- MODULE Spec2Model ----
(***************************************************************************)
(* rmpv::ext::se -- the serde Serializer that turns any Serialize value    *)
(* into an rmpv Value tree (to_value), its composite builders              *)
(* (SerializeVec, SerializeTupleVariant, DefaultSerializeMap,              *)
(* SerializeStructVariant) and the Serialize impl of Value itself.         *)
(*                                                                         *)
(* Integers are little-endian byte sequences (one element per byte), so    *)
(* that the 64-bit widths of the code are kept exactly.  Strings and byte  *)
(* buffers are byte sequences as well.  A Vec is modelled by its elements; *)
(* a builder keeps the capacity it was created with beside them.           *)
(***************************************************************************)
EXTENDS Integers, Sequences, FiniteSets, TLC

\* Bounds of the explored inputs.
MaxLen == 3
MaxValueLen == 2
MaxMapCalls == 3
MaxCalls == 6

\* ------------------------------------------------------------------------
\* Results: Ok / Err of Result<_, Error>, and a panic (unwinding or abort:
\* in both cases the call does not return a Result).
Ok(v) == [res |-> "Ok", v |-> v]

Err(e) == [res |-> "Err", e |-> e]

Panic(msg) == [res |-> "Panic", msg |-> msg]

\* Results of the builders' &mut self methods: the Result<(), Error> and the
\* builder as the call leaves it.
BOk(self) == [res |-> "Ok", self |-> self]

BErr(e, self) == [res |-> "Err", e |-> e, self |-> self]

\* Option
None == [some |-> FALSE]

Some(v) == [some |-> TRUE, v |-> v]

unwrap_or(o, dflt) == IF o.some THEN o.v ELSE dflt

\* impl ser::Error for Error: custom(msg) = Error::Syntax(format!("{}", msg));
\* messages are strings, whose Display output is the string.
Error_custom(msg) == [t |-> "Syntax", msg |-> msg]

\* ------------------------------------------------------------------------
\* Value
Nil == [t |-> "Nil"]

Boolean(v) == [t |-> "Boolean", bool |-> v]

PosInt(n) == [k |-> "PosInt", n |-> n]

NegInt(n) == [k |-> "NegInt", n |-> n]

Integer(n) == [t |-> "Integer", n |-> n]

F32(v) == [t |-> "F32", f |-> v]

F64(v) == [t |-> "F64", f |-> v]

\* Utf8String { s: Result<String, (Vec<u8>, Utf8Error)> }
Utf8Ok(b) == [ok |-> TRUE, b |-> b]

Utf8Err(b) == [ok |-> FALSE, b |-> b]

String(s) == [t |-> "String", s |-> s]

Binary(b) == [t |-> "Binary", bin |-> b]

Array(a) == [t |-> "Array", a |-> a]

Map(m) == [t |-> "Map", m |-> m]

Ext(ty, buf) == [t |-> "Ext", ty |-> ty, buf |-> buf]

\* ------------------------------------------------------------------------
\* Integer casts and Value::from.  Widths are in bytes.
I64Bytes == 8

IsNegative(bits) == bits[Len(bits)] >= 128

\* `val as u64` of an unsigned value: zero extension.
ZeroExtend(bits, w) == bits \o [i \in 1..(w - Len(bits)) |-> 0]

\* `val as i64` of a signed value: sign extension.
SignExtend(bits, w) ==
    bits \o [i \in 1..(w - Len(bits)) |-> IF IsNegative(bits) THEN 255 ELSE 0]

\* Value::from(i64): a negative value is stored NegInt, any other PosInt.
From_i64(n) == Integer(IF IsNegative(n) THEN NegInt(n) ELSE PosInt(n))

\* Value::from(u64)
From_u64(n) == Integer(PosInt(n))

\* Value::from(u32)
From_u32(n) == Integer(PosInt(ZeroExtend(n, I64Bytes)))

\* String::push(char): the UTF-8 encoding of a code point.
EncodeUtf8(c) ==
    IF c < 128 THEN <<c>>
    ELSE IF c < 2048 THEN <<192 + (c \div 64), 128 + (c % 64)>>
    ELSE IF c < 65536
         THEN <<224 + (c \div 4096), 128 + ((c \div 64) % 64), 128 + (c % 64)>>
    ELSE <<240 + (c \div 262144), 128 + ((c \div 4096) % 64),
           128 + ((c \div 64) % 64), 128 + (c % 64)>>

\* Vec::with_capacity(n) and push
Vec_with_capacity(n) == [elems |-> <<>>, cap |-> n]

Vec_push(vec, x) ==
    [elems |-> Append(vec.elems, x),
     cap |-> IF Len(vec.elems) + 1 > vec.cap THEN Len(vec.elems) + 1 ELSE vec.cap]

\* ------------------------------------------------------------------------
\* A value that implements Serialize (the driver) is a tree of the calls it
\* makes on the Serializer: [d |-> <method>, ...its arguments...].
\*   i8 i16 i32 i64 u8 u16 u32 u64 str bytes : val (bytes, little-endian
\*   for integers) ; bool : bval ; f32 f64 : fval ; char : cval (code point)
\*   unit none ; unit_struct : name ; unit_variant : name idx variant
\*   newtype_struct : name value ; newtype_variant : name idx variant value
\*   some : value ; seq : hint items ; tuple : len items
\*   tuple_struct : name len items ; tuple_variant : name idx variant len items
\*   struct : name len fields ; struct_variant : name idx variant len fields
\*   map : hint calls, each call [c |-> "key" | "value", x] or
\*         [c |-> "entry", k, v]
\*   (hint is an Option<usize>, len a usize)
\*   custom_error : msg   (its serialize returns Err(S::Error::custom(msg)))
\*   value : v            (an rmpv Value, serialized by impl Serialize for Value)
RECURSIVE to_value(_)

\* impl ser::Serializer for Serializer ------------------------------------
serialize_bool(val) == Ok(Boolean(val))

serialize_i64(val) == Ok(From_i64(val))

\* A bug: the i8 is widened as if unsigned (val as u8 as i64).
serialize_i8_zero_extended(val) == serialize_i64(ZeroExtend(val, I64Bytes))

serialize_i8(val) == serialize_i64(SignExtend(val, I64Bytes))

serialize_i16(val) == serialize_i64(SignExtend(val, I64Bytes))

serialize_i32(val) == serialize_i64(SignExtend(val, I64Bytes))

serialize_u64(val) == Ok(From_u64(val))

serialize_u8(val) == serialize_u64(ZeroExtend(val, I64Bytes))

serialize_u16(val) == serialize_u64(ZeroExtend(val, I64Bytes))

serialize_u32(val) == serialize_u64(ZeroExtend(val, I64Bytes))

serialize_f32(val) == Ok(F32(val))

serialize_f64(val) == Ok(F64(val))

serialize_str(val) == Ok(String(Utf8Ok(val)))

serialize_char(val) == serialize_str(EncodeUtf8(val))

serialize_bytes(val) == Ok(Binary(val))

serialize_unit == Ok(Nil)

serialize_unit_struct(name) == Ok(Array(<<>>))

serialize_unit_variant(name, idx, variant) ==
    Ok(Array(<<From_u32(idx), Array(<<>>)>>))

serialize_newtype_struct(name, value) ==
    LET r == to_value(value)
    IN  IF r.res = "Ok" THEN Ok(Array(<<r.v>>)) ELSE r

serialize_newtype_variant(name, idx, variant, value) ==
    LET r == to_value(value)
    IN  IF r.res = "Ok" THEN Ok(Array(<<From_u32(idx), Array(<<r.v>>)>>)) ELSE r

serialize_none == serialize_unit

\* value.serialize(self): the same Serializer serializes the inner value.
serialize_some(value) == to_value(value)

serialize_seq(len) == Ok([vec |-> Vec_with_capacity(unwrap_or(len, 0))])

serialize_tuple(len) == serialize_seq(Some(len))

serialize_tuple_struct(name, len) == serialize_seq(Some(len))

serialize_tuple_variant(name, idx, variant, len) ==
    Ok([idx |-> idx, vec |-> Vec_with_capacity(len)])

serialize_map(len) ==
    Ok([map |-> Vec_with_capacity(unwrap_or(len, 0)), next_key |-> None])

\* A bug: len default elements (vec![Value::Nil; len]) instead of a capacity.
serialize_struct_prefilled(name, len) ==
    Ok([vec |-> [elems |-> [i \in 1..len |-> Nil], cap |-> len]])

serialize_struct(name, len) == serialize_tuple_struct(name, len)

serialize_struct_variant(name, idx, variant, len) ==
    Ok([idx |-> idx, vec |-> Vec_with_capacity(len)])

\* impl SerializeSeq for SerializeVec -------------------------------------
\* A bug: a failed element is swallowed and stored as Nil.
SerializeSeq_serialize_element_swallow(self, value) ==
    LET r == to_value(value)
    IN  CASE r.res = "Ok" -> BOk([self EXCEPT !.vec = Vec_push(self.vec, r.v)])
          [] r.res = "Err" -> BOk([self EXCEPT !.vec = Vec_push(self.vec, Nil)])
          [] OTHER -> r

SerializeSeq_serialize_element(self, value) ==
    LET r == to_value(value)
    IN  CASE r.res = "Ok" -> BOk([self EXCEPT !.vec = Vec_push(self.vec, r.v)])
          [] r.res = "Err" -> BErr(r.e, self)
          [] OTHER -> r

SerializeSeq_end(self) == Ok(Array(self.vec.elems))

\* impl SerializeTuple for SerializeVec
SerializeTuple_serialize_element(self, value) ==
    SerializeSeq_serialize_element(self, value)

SerializeTuple_end(self) == SerializeSeq_end(self)

\* impl SerializeTupleStruct for SerializeVec
SerializeTupleStruct_serialize_field(self, value) ==
    SerializeSeq_serialize_element(self, value)

SerializeTupleStruct_end(self) == SerializeSeq_end(self)

\* impl SerializeStruct for SerializeVec
SerializeStruct_serialize_field(self, key, value) ==
    SerializeSeq_serialize_element(self, value)

SerializeStruct_end(self) == SerializeSeq_end(self)

\* impl ser::SerializeTupleVariant for SerializeTupleVariant
SerializeTupleVariant_serialize_field(self, value) ==
    LET r == to_value(value)
    IN  CASE r.res = "Ok" -> BOk([self EXCEPT !.vec = Vec_push(self.vec, r.v)])
          [] r.res = "Err" -> BErr(r.e, self)
          [] OTHER -> r

SerializeTupleVariant_end(self) ==
    Ok(Array(<<From_u32(self.idx), Array(self.vec.elems)>>))

\* A bug: each field is inserted in front of the earlier ones.
SerializeStructVariant_serialize_field_front(self, key, value) ==
    LET r == to_value(value)
    IN  CASE r.res = "Ok" ->
                BOk([self EXCEPT !.vec.elems = <<r.v>> \o self.vec.elems])
          [] r.res = "Err" -> BErr(r.e, self)
          [] OTHER -> r

\* impl ser::SerializeStructVariant for SerializeStructVariant
SerializeStructVariant_serialize_field(self, key, value) ==
    LET r == to_value(value)
    IN  CASE r.res = "Ok" -> BOk([self EXCEPT !.vec = Vec_push(self.vec, r.v)])
          [] r.res = "Err" -> BErr(r.e, self)
          [] OTHER -> r

SerializeStructVariant_end(self) ==
    Ok(Array(<<From_u32(self.idx), Array(self.vec.elems)>>))

\* impl ser::SerializeMap for DefaultSerializeMap -------------------------
\* A bug: a key is kept only when none is pending.
SerializeMap_serialize_key_first_wins(self, key) ==
    LET r == to_value(key)
    IN  CASE r.res = "Ok" ->
                BOk(IF self.next_key.some THEN self
                    ELSE [self EXCEPT !.next_key = Some(r.v)])
          [] r.res = "Err" -> BErr(r.e, self)
          [] OTHER -> r

\* self.next_key = Some(to_value(key)?): nothing is assigned when the
\* conversion of the key fails.
SerializeMap_serialize_key(self, key) ==
    LET r == to_value(key)
    IN  CASE r.res = "Ok" -> BOk([self EXCEPT !.next_key = Some(r.v)])
          [] r.res = "Err" -> BErr(r.e, self)
          [] OTHER -> r

\* A bug: the missing key is reported as an Err (ok_or(..)? for expect).
SerializeMap_serialize_value_err(self, value) ==
    IF ~self.next_key.some
    THEN BErr(Error_custom("serialize_value called before serialize_key"), self)
    ELSE LET key == self.next_key.v
             taken == [self EXCEPT !.next_key = None]
             r == to_value(value)
         IN  CASE r.res = "Ok" ->
                    BOk([taken EXCEPT !.map = Vec_push(self.map, <<key, r.v>>)])
               [] r.res = "Err" -> BErr(r.e, taken)
               [] OTHER -> r

\* A bug: a pair replaces an earlier pair of the same key.
SerializeMap_serialize_value_dedup(self, value) ==
    IF ~self.next_key.some
    THEN Panic("serialize_value called before serialize_key")
    ELSE LET key == self.next_key.v
             taken == [self EXCEPT !.next_key = None]
             r == to_value(value)
             kept == SelectSeq(self.map.elems, LAMBDA p : p[1] # key)
         IN  CASE r.res = "Ok" ->
                    BOk([taken EXCEPT !.map =
                            Vec_push([self.map EXCEPT !.elems = kept], <<key, r.v>>)])
               [] r.res = "Err" -> BErr(r.e, taken)
               [] OTHER -> r

\* self.next_key.take().expect(..) comes first: it panics on None and leaves
\* next_key None; then self.map.push((key, to_value(&value)?)).
SerializeMap_serialize_value(self, value) ==
    IF ~self.next_key.some
    THEN Panic("serialize_value called before serialize_key")
    ELSE LET key == self.next_key.v
             taken == [self EXCEPT !.next_key = None]
             r == to_value(value)
         IN  CASE r.res = "Ok" ->
                    BOk([taken EXCEPT !.map = Vec_push(self.map, <<key, r.v>>)])
               [] r.res = "Err" -> BErr(r.e, taken)
               [] OTHER -> r

\* SerializeMap::serialize_entry is not overridden: serde's provided method
\* is serialize_key(key)? followed by serialize_value(value).
SerializeMap_serialize_entry(self, key, value) ==
    LET r == SerializeMap_serialize_key(self, key)
    IN  IF r.res = "Ok" THEN SerializeMap_serialize_value(r.self, value) ELSE r

SerializeMap_end(self) == Ok(Map(self.map.elems))

\* ------------------------------------------------------------------------
\* The `?` operator on a builder call: an Err leaves the serialize function
\* with that error (the builder is dropped); a panic goes on unwinding.
Try(r) == IF r.res = "Err" THEN Err(r.e) ELSE r

\* impl Serialize for Value -----------------------------------------------
AsValue(v) == [d |-> "value", v |-> v]

\* &i8 and &Vec<u8> as Serialize: serde serializes an i8 with serialize_i8
\* and a Vec<T>, Vec<u8> included, as a sequence of its elements.
I8_driver(ty) == [d |-> "i8", val |-> <<ty>>]

VecU8_driver(buf) ==
    [d |-> "seq", hint |-> Some(Len(buf)),
     items |-> [i \in 1..Len(buf) |-> [d |-> "u8", val |-> <<buf[i]>>]]]

\* for item in array { state.serialize_element(item)?; }
RECURSIVE Value_Array_items(_, _, _)
Value_Array_items(state, array, i) ==
    IF i > Len(array) THEN BOk(state)
    ELSE LET r == SerializeSeq_serialize_element(state, AsValue(array[i]))
         IN  IF r.res = "Ok" THEN Value_Array_items(r.self, array, i + 1) ELSE r

\* for &(ref key, ref val) in map { state.serialize_entry(key, val)?; }
RECURSIVE Value_Map_entries(_, _, _)
Value_Map_entries(state, map, i) ==
    IF i > Len(map) THEN BOk(state)
    ELSE LET r == SerializeMap_serialize_entry(state, AsValue(map[i][1]),
                                               AsValue(map[i][2]))
         IN  IF r.res = "Ok" THEN Value_Map_entries(r.self, map, i + 1) ELSE r

\* A bug: both kinds of Integer go through serialize_u64.
Value_Integer_unsigned(n) == serialize_u64(n.n)

\* match n { PosInt(n) => s.serialize_u64(n), NegInt(n) => s.serialize_i64(n) }
Value_Integer(n) == IF n.k = "PosInt" THEN serialize_u64(n.n) ELSE serialize_i64(n.n)

\* A bug: the bytes of an invalid string are passed on as a str.
Value_String_as_str(s) == serialize_str(s.b)

\* match v.s { Ok(v) => s.serialize_str(v), Err(v) => Bytes::from(..).serialize(s) }
\* (serde_bytes::Bytes serializes with serialize_bytes)
Value_String(s) == IF s.ok THEN serialize_str(s.b) ELSE serialize_bytes(s.b)

Value_Ext(ty, buf) ==
    LET state == serialize_seq(Some(2)).v
        r1 == SerializeSeq_serialize_element(state, I8_driver(ty))
        r2 == SerializeSeq_serialize_element(r1.self, VecU8_driver(buf))
    IN  IF r1.res # "Ok" THEN Try(r1)
        ELSE IF r2.res # "Ok" THEN Try(r2)
        ELSE SerializeSeq_end(r2.self)

Value_serialize(v) ==
    CASE v.t = "Nil" -> serialize_unit
      [] v.t = "Boolean" -> serialize_bool(v.bool)
      [] v.t = "Integer" -> Value_Integer(v.n)
      [] v.t = "F32" -> serialize_f32(v.f)
      [] v.t = "F64" -> serialize_f64(v.f)
      [] v.t = "String" -> Value_String(v.s)
      [] v.t = "Binary" -> serialize_bytes(v.bin)
      [] v.t = "Array" ->
            LET r == Value_Array_items(serialize_seq(Some(Len(v.a))).v, v.a, 1)
            IN  IF r.res = "Ok" THEN SerializeSeq_end(r.self) ELSE Try(r)
      [] v.t = "Map" ->
            LET r == Value_Map_entries(serialize_map(Some(Len(v.m))).v, v.m, 1)
            IN  IF r.res = "Ok" THEN SerializeMap_end(r.self) ELSE Try(r)
      [] v.t = "Ext" -> Value_Ext(v.ty, v.buf)

\* Any other Serialize value -----------------------------------------------
\* One builder call of a driver: kind names the builder trait in use.
Driver_call(kind, state, x) ==
    CASE kind = "seq" -> SerializeSeq_serialize_element(state, x)
      [] kind = "tuple" -> SerializeTuple_serialize_element(state, x)
      [] kind = "tuple_struct" -> SerializeTupleStruct_serialize_field(state, x)
      [] kind = "tuple_variant" -> SerializeTupleVariant_serialize_field(state, x)
      [] kind = "struct" -> SerializeStruct_serialize_field(state, x.key, x.value)
      [] kind = "struct_variant" ->
            SerializeStructVariant_serialize_field(state, x.key, x.value)
      [] kind = "map" ->
            CASE x.c = "key" -> SerializeMap_serialize_key(state, x.x)
              [] x.c = "value" -> SerializeMap_serialize_value(state, x.x)
              [] x.c = "entry" -> SerializeMap_serialize_entry(state, x.k, x.v)

Driver_end(kind, state) ==
    CASE kind = "seq" -> SerializeSeq_end(state)
      [] kind = "tuple" -> SerializeTuple_end(state)
      [] kind = "tuple_struct" -> SerializeTupleStruct_end(state)
      [] kind = "tuple_variant" -> SerializeTupleVariant_end(state)
      [] kind = "struct" -> SerializeStruct_end(state)
      [] kind = "struct_variant" -> SerializeStructVariant_end(state)
      [] kind = "map" -> SerializeMap_end(state)

\* The builder calls of a driver in order, each followed by `?`.
RECURSIVE Driver_calls(_, _, _, _)
Driver_calls(kind, state, xs, i) ==
    IF i > Len(xs) THEN BOk(state)
    ELSE LET r == Driver_call(kind, state, xs[i])
         IN  IF r.res = "Ok" THEN Driver_calls(kind, r.self, xs, i + 1) ELSE r

Driver_compound(kind, state, xs) ==
    LET r == Driver_calls(kind, state, xs, 1)
    IN  IF r.res = "Ok" THEN Driver_end(kind, r.self) ELSE Try(r)

Driver_serialize(x) ==
    CASE x.d = "bool" -> serialize_bool(x.bval)
      [] x.d = "i8" -> serialize_i8(x.val)
      [] x.d = "i16" -> serialize_i16(x.val)
      [] x.d = "i32" -> serialize_i32(x.val)
      [] x.d = "i64" -> serialize_i64(x.val)
      [] x.d = "u8" -> serialize_u8(x.val)
      [] x.d = "u16" -> serialize_u16(x.val)
      [] x.d = "u32" -> serialize_u32(x.val)
      [] x.d = "u64" -> serialize_u64(x.val)
      [] x.d = "f32" -> serialize_f32(x.fval)
      [] x.d = "f64" -> serialize_f64(x.fval)
      [] x.d = "char" -> serialize_char(x.cval)
      [] x.d = "str" -> serialize_str(x.val)
      [] x.d = "bytes" -> serialize_bytes(x.val)
      [] x.d = "unit" -> serialize_unit
      [] x.d = "unit_struct" -> serialize_unit_struct(x.name)
      [] x.d = "unit_variant" -> serialize_unit_variant(x.name, x.idx, x.variant)
      [] x.d = "newtype_struct" -> serialize_newtype_struct(x.name, x.value)
      [] x.d = "newtype_variant" ->
            serialize_newtype_variant(x.name, x.idx, x.variant, x.value)
      [] x.d = "none" -> serialize_none
      [] x.d = "some" -> serialize_some(x.value)
      [] x.d = "seq" -> Driver_compound("seq", serialize_seq(x.hint).v, x.items)
      [] x.d = "tuple" -> Driver_compound("tuple", serialize_tuple(x.len).v, x.items)
      [] x.d = "tuple_struct" ->
            Driver_compound("tuple_struct",
                            serialize_tuple_struct(x.name, x.len).v, x.items)
      [] x.d = "tuple_variant" ->
            Driver_compound("tuple_variant",
                serialize_tuple_variant(x.name, x.idx, x.variant, x.len).v, x.items)
      [] x.d = "map" -> Driver_compound("map", serialize_map(x.hint).v, x.calls)
      [] x.d = "struct" ->
            Driver_compound("struct", serialize_struct(x.name, x.len).v, x.fields)
      [] x.d = "struct_variant" ->
            Driver_compound("struct_variant",
                serialize_struct_variant(x.name, x.idx, x.variant, x.len).v, x.fields)
      [] x.d = "custom_error" -> Err(Error_custom(x.msg))

\* pub fn to_value<T: Serialize>(value: T) = value.serialize(Serializer)
to_value(value) ==
    IF value.d = "value" THEN Value_serialize(value.v) ELSE Driver_serialize(value)

\* ------------------------------------------------------------------------
\* State.  input/output: one call of to_value.  self/phase/log/last: one
\* DefaultSerializeMap driven call by call; log records each call with its
\* argument and outcome, last is the outcome of the latest call.
VARIABLES input, output, self, phase, log, last

vars == <<input, output, self, phase, log, last>>

NotRun == [res |-> "NotRun"]

NoBuilder == [map |-> Vec_with_capacity(0), next_key |-> None]

BuilderIdle ==
    /\ self = NoBuilder
    /\ phase = "none"
    /\ log = <<>>
    /\ last = NotRun

\* to_value(input)
ToValue ==
    /\ output = NotRun
    /\ input.d # "nothing"
    /\ output' = to_value(input)
    /\ UNCHANGED <<input, self, phase, log, last>>

\* ------------------------------------------------------------------------
\* Integers of every width: the low bytes all lo, the top byte hi.
ByteSamples == {0, 1, 127, 128, 255}

IntWidth(d) ==
    CASE d \in {"i8", "u8"} -> 1
      [] d \in {"i16", "u16"} -> 2
      [] d \in {"i32", "u32"} -> 4
      [] d \in {"i64", "u64"} -> 8

SignedKinds == {"i8", "i16", "i32", "i64"}

UnsignedKinds == {"u8", "u16", "u32", "u64"}

IntBits(w, lo, hi) == [i \in 1..w |-> IF i = w THEN hi ELSE lo]

IntInputs ==
    {[d |-> k, val |-> IntBits(IntWidth(k), lo, hi)] :
        k \in SignedKinds \cup UnsignedKinds, lo \in ByteSamples, hi \in ByteSamples}

InitInt ==
    /\ input \in IntInputs
    /\ output = NotRun
    /\ BuilderIdle

SpecInt == InitInt /\ [][ToValue]_vars

\* The number a bit pattern denotes, as sign and magnitude (64-bit magnitude,
\* little-endian bytes), computed by two's-complement negation.
NegateBytes(bits) ==
    [i \in 1..Len(bits) |->
        ((255 - bits[i]) + (IF \A j \in 1..(i - 1) : bits[j] = 0 THEN 1 ELSE 0)) % 256]

MathValue(signed, bits) ==
    IF signed /\ IsNegative(bits)
    THEN [neg |-> TRUE, mag |-> ZeroExtend(NegateBytes(bits), 8)]
    ELSE [neg |-> FALSE, mag |-> ZeroExtend(bits, 8)]

\* The number an Integer value stores: PosInt holds a u64, NegInt an i64.
IntegerMathValue(v) == MathValue(v.n.k = "NegInt", v.n.n)

IsIntInput == input.d \in SignedKinds \cup UnsignedKinds

InputNegative == input.d \in SignedKinds /\ IsNegative(input.val)

\* C6: for every signed or unsigned integer n of width 8, 16, 32 or 64,
\* to_value(n) is Ok(Integer) tagged Positive iff n >= 0 and Negative iff
\* n < 0, and the stored 64-bit number equals n.
C6_IntegerSignLaw ==
    (IsIntInput /\ output # NotRun) =>
        /\ output.res = "Ok"
        /\ output.v.t = "Integer"
        /\ (output.v.n.k = "PosInt") <=> ~InputNegative
        /\ (output.v.n.k = "NegInt") <=> InputNegative
        /\ Len(output.v.n.n) = 8
        /\ IntegerMathValue(output.v) = MathValue(input.d \in SignedKinds, input.val)

\* A negative i8 and a u64 above i64::MAX have both been converted.
C6_Witness ==
    /\ output # NotRun
    /\ \/ input = [d |-> "i8", val |-> <<128>>]
       \/ input = [d |-> "u64", val |-> <<255, 255, 255, 255, 255, 255, 255, 255>>]
       \/ input = [d |-> "i32", val |-> <<255, 255, 255, 255>>]

\* ------------------------------------------------------------------------
\* Value trees as the input of to_value.
SeqsUpTo(S, n) == UNION {[1..k -> S] : k \in 0..n}

\* std::str::from_utf8, which decides whether a Utf8String holds Ok(String)
\* or Err(bytes).
RECURSIVE IsValidUtf8(_)
IsValidUtf8(b) ==
    LET n == Len(b)
        Cont(i) == i <= n /\ b[i] >= 128 /\ b[i] <= 191
        Rest(k) == IsValidUtf8(SubSeq(b, k + 1, n))
    IN  IF n = 0 THEN TRUE
        ELSE IF b[1] < 128 THEN Rest(1)
        ELSE IF b[1] >= 194 /\ b[1] <= 223 THEN Cont(2) /\ Rest(2)
        ELSE IF b[1] >= 224 /\ b[1] <= 239
             THEN /\ Cont(2) /\ Cont(3)
                  /\ (b[1] = 224 => b[2] >= 160)
                  /\ (b[1] = 237 => b[2] <= 159)
                  /\ Rest(3)
        ELSE IF b[1] >= 240 /\ b[1] <= 244
             THEN /\ Cont(2) /\ Cont(3) /\ Cont(4)
                  /\ (b[1] = 240 => b[2] >= 144)
                  /\ (b[1] = 244 => b[2] <= 143)
                  /\ Rest(4)
        ELSE FALSE

\* Utf8String::from(Vec<u8>)
Utf8String_from(b) == IF IsValidUtf8(b) THEN Utf8Ok(b) ELSE Utf8Err(b)

StrByteSamples == {65, 128, 169, 195, 255}

ByteStrings(n) == SeqsUpTo(StrByteSamples, n)

I64(lo, hi) == IntBits(8, lo, hi)

ExtValues == {Ext(ty, buf) : ty \in {0, 5, 128, 255}, buf \in {<<>>, <<1, 2, 3>>, <<255>>}}

LeafValues(n) ==
    {Nil, Boolean(TRUE), Boolean(FALSE), F32("1.5"), F64("2.5"),
     From_u64(I64(5, 0)), From_u64(I64(255, 255)), From_i64(I64(255, 255)),
     From_i64(I64(0, 128))}
    \cup {String(Utf8String_from(b)) : b \in ByteStrings(n)}
    \cup {Binary(b) : b \in ByteStrings(n)}
    \cup ExtValues

\* The leaves that composite values are built from.
CoreValues ==
    {Nil, From_i64(I64(255, 255)), String(Utf8Err(<<255>>)), Ext(5, <<1, 2, 3>>)}

Level1Values(n) ==
    {Array(a) : a \in SeqsUpTo(CoreValues, n)}
    \cup {Map(m) : m \in SeqsUpTo(CoreValues \X CoreValues, n)}
    \cup {Array(<<x>>) : x \in LeafValues(n)}

Level2Values(n) ==
    {Array(<<x>>) : x \in Level1Values(n)}
    \cup {Array(<<c, x>>) : c \in CoreValues, x \in Level1Values(n)}
    \cup {Map(<<<<x, c>>>>) : c \in CoreValues, x \in Level1Values(n)}
    \cup {Map(<<<<c, x>>>>) : c \in CoreValues, x \in Level1Values(n)}

ValueInputs(n) == LeafValues(n) \cup Level1Values(n) \cup Level2Values(n)

InitValue ==
    /\ input \in {AsValue(v) : v \in ValueInputs(MaxValueLen)}
    /\ output = NotRun
    /\ BuilderIdle

SpecValue == InitValue /\ [][ToValue]_vars

IsValueInput == input.d = "value" /\ output # NotRun

\* C3 (as claimed): to_value(Ext(tag, payload)) is the two-element Array of
\* the Integer of the tag and Binary(payload).
C3_ExtPayloadIsBinary ==
    (IsValueInput /\ input.v.t = "Ext") =>
        output = Ok(Array(<<From_i64(SignExtend(<<input.v.ty>>, 8)),
                            Binary(input.v.buf)>>))

\* C4: a String value holding bytes b that are not valid UTF-8 converts,
\* without failing, to what the raw-bytes path gives for b: Binary(b) passed
\* to to_value, and serialize_bytes(b).
C4_Utf8Fallback ==
    (IsValueInput /\ input.v.t = "String" /\ ~input.v.s.ok) =>
        /\ output.res = "Ok"
        /\ output = to_value(AsValue(Binary(input.v.s.b)))
        /\ output = to_value([d |-> "bytes", val |-> input.v.s.b])
        /\ output.v = Binary(input.v.s.b)

\* An invalid-UTF-8 String of two bytes has been converted.
C4_Witness ==
    /\ IsValueInput
    /\ input.v = String(Utf8Err(<<65, 128>>))
    /\ ~IsValidUtf8(<<65, 128>>)
    /\ output.res = "Ok"

\* No Extension node and no invalid-UTF-8 String node anywhere in v.
RECURSIVE IsPlain(_)
IsPlain(v) ==
    CASE v.t = "Ext" -> FALSE
      [] v.t = "String" -> v.s.ok
      [] v.t = "Array" -> \A i \in 1..Len(v.a) : IsPlain(v.a[i])
      [] v.t = "Map" ->
            \A i \in 1..Len(v.m) : IsPlain(v.m[i][1]) /\ IsPlain(v.m[i][2])
      [] OTHER -> TRUE

\* C10: for every Value v, to_value(v) succeeds, converting its result
\* again gives the same result, the result holds no Extension and no
\* invalid-UTF-8 String node, and it is v itself when v holds neither.
C10_Idempotent ==
    IsValueInput =>
        /\ output.res = "Ok"
        /\ to_value(AsValue(output.v)) = output
        /\ IsPlain(output.v)
        /\ (IsPlain(input.v) => output.v = input.v)

\* A nested tree with an Extension and an invalid String inside a Map inside
\* an Array has been converted, to a different tree.
C10_Witness ==
    /\ IsValueInput
    /\ input.v = Array(<<Nil, Map(<<<<Ext(5, <<1, 2, 3>>), String(Utf8Err(<<255>>))>>>>)>>)
    /\ output.res = "Ok"
    /\ output.v # input.v

\* ------------------------------------------------------------------------
\* Drivers other than Value: primitives, compounds of every kind, drivers
\* whose serialize fails, and a map driver that breaks the key-before-value
\* protocol.
U8One == [d |-> "u8", val |-> <<1>>]

StrA == [d |-> "str", val |-> <<65>>]

Fail1 == [d |-> "custom_error", msg |-> "e1"]

Fail2 == [d |-> "custom_error", msg |-> "e2"]

ValueBeforeKey == [d |-> "map", hint |-> None, calls |-> <<[c |-> "value", x |-> U8One]>>]

CoreDrivers == {U8One, StrA, Fail1, Fail2, ValueBeforeKey}

PrimitiveDrivers ==
    {[d |-> "bool", bval |-> b] : b \in BOOLEAN}
    \cup {[d |-> k, fval |-> "1.5"] : k \in {"f32", "f64"}}
    \cup {[d |-> "char", cval |-> c] : c \in {65, 233, 8364, 128512}}
    \cup {[d |-> k, val |-> b] : k \in {"str", "bytes"}, b \in {<<>>, <<65>>, <<195, 169>>}}
    \cup {[d |-> k] : k \in {"unit", "none"}}
    \cup {[d |-> "unit_struct", name |-> nm] : nm \in {"S", "T"}}

IdxSamples == {<<0, 0, 0, 0>>, <<1, 0, 0, 0>>, <<255, 255, 255, 255>>}

Names == <<"S", "T">>

\* Field names of a struct: a, b, c, ... or x, y, z, ...
FieldKey(scheme, i) ==
    IF scheme = 1 THEN <<"a", "b", "c", "d">>[i] ELSE <<"x", "y", "z", "w">>[i]

Fields(scheme, items) ==
    [i \in 1..Len(items) |-> [key |-> FieldKey(scheme, i), value |-> items[i]]]

FieldValues(fields) == [i \in 1..Len(fields) |-> fields[i].value]

LenHints(items) == {0, Len(items), Len(items) + 1}

SeqD(hint, items) == [d |-> "seq", hint |-> hint, items |-> items]

TupleD(len, items) == [d |-> "tuple", len |-> len, items |-> items]

TupleStructD(name, len, items) ==
    [d |-> "tuple_struct", name |-> name, len |-> len, items |-> items]

StructD(name, len, fields) ==
    [d |-> "struct", name |-> name, len |-> len, fields |-> fields]

TupleVariantD(name, idx, variant, len, items) ==
    [d |-> "tuple_variant", name |-> name, idx |-> idx, variant |-> variant,
     len |-> len, items |-> items]

StructVariantD(name, idx, variant, len, fields) ==
    [d |-> "struct_variant", name |-> name, idx |-> idx, variant |-> variant,
     len |-> len, fields |-> fields]

UnitVariantD(name, idx, variant) ==
    [d |-> "unit_variant", name |-> name, idx |-> idx, variant |-> variant]

NewtypeVariantD(name, idx, variant, value) ==
    [d |-> "newtype_variant", name |-> name, idx |-> idx, variant |-> variant,
     value |-> value]

NewtypeStructD(name, value) == [d |-> "newtype_struct", name |-> name, value |-> value]

SomeD(value) == [d |-> "some", value |-> value]

MapD(hint, calls) == [d |-> "map", hint |-> hint, calls |-> calls]

KeyCall(x) == [c |-> "key", x |-> x]

ValueCall(x) == [c |-> "value", x |-> x]

EntryCall(k, v) == [c |-> "entry", k |-> k, v |-> v]

MapCalls ==
    {KeyCall(x) : x \in {U8One, StrA, Fail1}}
    \cup {ValueCall(x) : x \in {U8One, StrA, Fail1}}
    \cup {EntryCall(U8One, U8One), EntryCall(StrA, Fail2)}

ItemLists(n) == SeqsUpTo(CoreDrivers, n)

CompoundsOf(items) ==
    {SeqD(h, items) : h \in {None, Some(0), Some(Len(items))}}
    \cup {TupleD(n, items) : n \in {Len(items), Len(items) + 1}}
    \cup {TupleStructD(Names[k], Len(items), items) : k \in {1, 2}}
    \cup {StructD(Names[k], n, Fields(k, items)) : n \in LenHints(items), k \in {1, 2}}
    \cup {TupleVariantD("E", i, "V", Len(items), items) : i \in IdxSamples}
    \cup {StructVariantD("E", i, "V", Len(items), Fields(1, items)) : i \in IdxSamples}

Level1Drivers(n, m) ==
    UNION {CompoundsOf(items) : items \in ItemLists(n)}
    \cup {UnitVariantD(Names[k], i, Names[k]) : k \in {1, 2}, i \in IdxSamples}
    \cup {NewtypeVariantD(Names[k], i, Names[k], x) :
            k \in {1, 2}, i \in IdxSamples, x \in CoreDrivers}
    \cup {NewtypeStructD(Names[k], x) : k \in {1, 2}, x \in CoreDrivers}
    \cup {SomeD(x) : x \in CoreDrivers \cup PrimitiveDrivers}
    \cup {MapD(h, calls) : h \in {None, Some(0)}, calls \in SeqsUpTo(MapCalls, m)}

\* The compounds nested inside another compound.
InnerDrivers(n, m) ==
    UNION {{SeqD(Some(Len(items)), items),
            StructD("S", Len(items), Fields(1, items)),
            TupleVariantD("E", <<1, 0, 0, 0>>, "V", Len(items), items)} :
                items \in ItemLists(n - 1)}
    \cup {MapD(None, calls) : calls \in SeqsUpTo(MapCalls, m - 1)}

Level2Drivers(n, m) ==
    {SeqD(None, <<x>>) : x \in InnerDrivers(n, m)}
    \cup {SomeD(x) : x \in InnerDrivers(n, m)}
    \cup {NewtypeVariantD("E", <<1, 0, 0, 0>>, "V", x) : x \in InnerDrivers(n, m)}
    \cup {SeqD(None, <<c, x>>) : c \in CoreDrivers, x \in InnerDrivers(n, m)}
    \cup {TupleD(2, <<x, c>>) : c \in CoreDrivers, x \in InnerDrivers(n, m)}
    \cup {StructVariantD("E", <<1, 0, 0, 0>>, "V", 2, Fields(1, <<c, x>>)) :
            c \in CoreDrivers, x \in InnerDrivers(n, m)}
    \cup {MapD(None, <<KeyCall(x), ValueCall(c)>>) : c \in CoreDrivers, x \in InnerDrivers(n, m)}
    \cup {MapD(None, <<KeyCall(c), ValueCall(x)>>) : c \in CoreDrivers, x \in InnerDrivers(n, m)}

DriverInputs(n, m) ==
    PrimitiveDrivers \cup CoreDrivers \cup Level1Drivers(n, m) \cup Level2Drivers(n, m)

InitDriver ==
    /\ input \in DriverInputs(MaxLen, MaxMapCalls)
    /\ output = NotRun
    /\ BuilderIdle

SpecDriver == InitDriver /\ [][ToValue]_vars

IsDriverInput(kind) == input.d = kind /\ output # NotRun

AllOk(items) == \A i \in 1..Len(items) : to_value(items[i]).res = "Ok"

Converted(items) == [i \in 1..Len(items) |-> to_value(items[i]).v]

\* What a driver does on its own account, walking its calls in order: it
\* signals the failure of the first custom_error it reaches ("fail"), or
\* submits a map value with no key pending before that ("panic"), or
\* neither ("ok").
RECURSIVE Outcome(_)
RECURSIVE FirstOutcome(_, _)
RECURSIVE MapOutcome(_, _, _)
FirstOutcome(items, i) ==
    IF i > Len(items) THEN [k |-> "ok"]
    ELSE LET o == Outcome(items[i])
         IN  IF o.k = "ok" THEN FirstOutcome(items, i + 1) ELSE o

MapOutcome(calls, i, pending) ==
    IF i > Len(calls) THEN [k |-> "ok"]
    ELSE LET call == calls[i]
         IN  CASE call.c = "key" ->
                    LET o == Outcome(call.x)
                    IN  IF o.k = "ok" THEN MapOutcome(calls, i + 1, TRUE) ELSE o
               [] call.c = "value" ->
                    IF ~pending THEN [k |-> "panic"]
                    ELSE LET o == Outcome(call.x)
                         IN  IF o.k = "ok" THEN MapOutcome(calls, i + 1, FALSE) ELSE o
               [] call.c = "entry" ->
                    LET ok == Outcome(call.k)
                        ov == Outcome(call.v)
                    IN  IF ok.k # "ok" THEN ok
                        ELSE IF ov.k # "ok" THEN ov
                        ELSE MapOutcome(calls, i + 1, FALSE)

Outcome(x) ==
    CASE x.d = "custom_error" -> [k |-> "fail", msg |-> x.msg]
      [] x.d \in {"newtype_struct", "newtype_variant", "some"} -> Outcome(x.value)
      [] x.d \in {"seq", "tuple", "tuple_struct", "tuple_variant"} ->
            FirstOutcome(x.items, 1)
      [] x.d \in {"struct", "struct_variant"} -> FirstOutcome(FieldValues(x.fields), 1)
      [] x.d = "map" -> MapOutcome(x.calls, 1, FALSE)
      [] OTHER -> [k |-> "ok"]

\* C5: when the driver signals a failure with message m, at the top level or
\* nested in a sequence, struct, variant, map key or map value, to_value
\* returns Err(Syntax(m)) for the first failure in call order, whatever the
\* siblings after it would do; a driver that signals none and keeps the map
\* protocol gets Ok.
C5_ErrorPropagation ==
    (input.d # "nothing" /\ output # NotRun) =>
        LET o == Outcome(input)
        IN  /\ (o.k = "fail" => output = Err([t |-> "Syntax", msg |-> o.msg]))
            /\ (o.k = "ok" => output.res = "Ok")

\* A failure nested in a struct inside a sequence, followed in the struct by
\* a protocol-breaking map, has been reported.
C5_Witness ==
    /\ output = Err([t |-> "Syntax", msg |-> "e1"])
    /\ input = SeqD(None, <<U8One,
                 StructD("S", 2, Fields(1, <<Fail1, ValueBeforeKey>>))>>)

IdxValue(idx) == Integer(PosInt(idx \o <<0, 0, 0, 0>>))

\* C7: a unit variant of index i converts to Array[Integer(i, Positive),
\* Array[]], a newtype variant to Array[i, Array[convert(a)]], a tuple and
\* a struct variant to Array[i, Array[convert(f1), .., convert(fn)]] in
\* submission order; names play no part, so a tuple variant and a struct
\* variant of equal index and field values convert alike.
C7_EnumShape ==
    /\ IsDriverInput("unit_variant") =>
            output = Ok(Array(<<IdxValue(input.idx), Array(<<>>)>>))
    /\ (IsDriverInput("newtype_variant") /\ AllOk(<<input.value>>)) =>
            output = Ok(Array(<<IdxValue(input.idx),
                                Array(<<to_value(input.value).v>>)>>))
    /\ (IsDriverInput("tuple_variant") /\ AllOk(input.items)) =>
            /\ output = Ok(Array(<<IdxValue(input.idx), Array(Converted(input.items))>>))
            /\ output = to_value(StructVariantD("Other", input.idx, "W", 0,
                                                Fields(2, input.items)))
    /\ (IsDriverInput("struct_variant") /\ AllOk(FieldValues(input.fields))) =>
            /\ output = Ok(Array(<<IdxValue(input.idx),
                                   Array(Converted(FieldValues(input.fields)))>>))
            /\ output = to_value(TupleVariantD("Other", input.idx, "W", 0,
                                               FieldValues(input.fields)))

\* A struct variant of index u32::MAX with three fields has been converted.
C7_Witness ==
    /\ IsDriverInput("struct_variant")
    /\ output.res = "Ok"
    /\ input.idx = <<255, 255, 255, 255>>
    /\ Len(input.fields) = 3
    /\ input.fields[1].value # input.fields[2].value

\* C8: a struct whose fields are submitted in the order (a, b, c) converts
\* to Array[convert(a), convert(b), convert(c)], whatever its name, its
\* field names and its declared length; so it converts like the tuple, the
\* tuple struct and the sequence (a, b, c).
C8_StructShape ==
    (IsDriverInput("struct") /\ AllOk(FieldValues(input.fields))) =>
        LET vals == FieldValues(input.fields)
        IN  /\ output = Ok(Array(Converted(vals)))
            /\ output = to_value(TupleD(Len(vals), vals))
            /\ output = to_value(TupleStructD("Other", Len(vals), vals))
            /\ output = to_value(SeqD(None, vals))

\* A three-field struct with a wrong declared length has been converted.
C8_Witness ==
    /\ IsDriverInput("struct")
    /\ output.res = "Ok"
    /\ Len(input.fields) = 3
    /\ input.len = 4
    /\ input.fields[1].value # input.fields[3].value

\* ------------------------------------------------------------------------
\* One DefaultSerializeMap, driven call by call.  The driver may go on after
\* an Err (the builder is a &mut it still holds); a panic ends its use.
NoInput == [d |-> "nothing"]

KeyArgs == {U8One, StrA, Fail1}

ValueArgs == {U8One, StrA, Fail1}

Event(op, arg, r) ==
    [op |-> op, arg |-> arg, res |-> r.res, pending |-> self.next_key.some]

\* Serializer::serialize_map(len)
SerializeMapCall(len) ==
    /\ phase = "none"
    /\ self' = serialize_map(len).v
    /\ phase' = "open"
    /\ last' = [res |-> "Ok"]
    /\ UNCHANGED <<input, output, log>>

\* One &mut self call on the builder and what it leaves behind.
BuilderCall(op, arg, r) ==
    /\ phase = "open"
    /\ Len(log) < MaxCalls
    /\ log' = Append(log, Event(op, arg, r))
    /\ last' = IF r.res = "Err" THEN Err(r.e) ELSE [res |-> r.res]
    /\ IF r.res = "Panic"
       THEN phase' = "panicked" /\ self' = self
       ELSE phase' = phase /\ self' = r.self
    /\ UNCHANGED <<input, output>>

\* DefaultSerializeMap::serialize_key(key)
SerializeKey(key) == BuilderCall("key", key, SerializeMap_serialize_key(self, key))

\* DefaultSerializeMap::serialize_value(value)
SerializeValue(value) ==
    BuilderCall("value", value, SerializeMap_serialize_value(self, value))

\* DefaultSerializeMap::end()
End ==
    /\ phase = "open"
    /\ last' = SerializeMap_end(self)
    /\ phase' = "ended"
    /\ UNCHANGED <<input, output, self, log>>

Init ==
    /\ input = NoInput
    /\ output = NotRun
    /\ BuilderIdle

Next ==
    \/ \E len \in {None, Some(0), Some(2)} : SerializeMapCall(len)
    \/ \E key \in KeyArgs : SerializeKey(key)
    \/ \E value \in ValueArgs : SerializeValue(value)
    \/ End

Spec == Init /\ [][Next]_vars

\* C1: a value submission made while no key is pending panics and never
\* returns Err, on a fresh builder and after a completed pair alike, and
\* whether or not the submitted value would itself fail to convert.
C1_ValueWithoutKeyPanics ==
    \A i \in 1..Len(log) :
        (log[i].op = "value" /\ ~log[i].pending) =>
            /\ log[i].res = "Panic"
            /\ i = Len(log)
            /\ phase = "panicked"
            /\ last.res = "Panic"

\* After a completed pair, a second value in a row (one that would fail to
\* convert) has panicked.
C1_Witness ==
    /\ phase = "panicked"
    /\ Len(log) = 3
    /\ log[1].op = "key" /\ log[1].res = "Ok"
    /\ log[2].op = "value" /\ log[2].res = "Ok"
    /\ log[3].op = "value" /\ log[3].arg = Fail1 /\ log[3].res = "Panic"

\* The log is k1, v1, ..., kn, vn, every call successful.
Alternating ==
    /\ Len(log) % 2 = 0
    /\ \A i \in 1..Len(log) :
          /\ log[i].res = "Ok"
          /\ log[i].op = (IF i % 2 = 1 THEN "key" ELSE "value")

PairsSubmitted ==
    [i \in 1..(Len(log) \div 2) |->
        <<to_value(log[2 * i - 1].arg).v, to_value(log[2 * i].arg).v>>]

\* C2: after strictly alternating successful submissions k1, v1, ..., kn, vn
\* end() yields the Map of exactly the pairs (convert(ki), convert(vi)) in
\* call order: nothing deduplicated, nothing reordered, whatever the length
\* hint the builder was created with.
C2_MapOrderDuplicates ==
    (phase = "ended" /\ Alternating) => last = Ok(Map(PairsSubmitted))

\* Keys k1, k2, k1 with three values have been submitted and the map ended.
C2_Witness ==
    /\ phase = "ended"
    /\ Alternating
    /\ Len(log) = 6
    /\ log[1].arg = U8One /\ log[3].arg = StrA /\ log[5].arg = U8One
    /\ log[2].arg # log[6].arg
    /\ Len(last.v.m) = 3

OkValueCalls(l) == {i \in 1..Len(l) : l[i].op = "value" /\ l[i].res = "Ok"}

OkKeyCalls(l) == {i \in 1..Len(l) : l[i].op = "key" /\ l[i].res = "Ok"}

Latest(S) == CHOOSE i \in S : \A j \in S : j <= i

\* What one call may do to the builder, by C9.
C9_Step ==
    /\ (log' # log /\ phase' = "open") =>
          LET ev == log'[Len(log')]
              c == to_value(ev.arg)
          IN  /\ (ev.op = "key" /\ c.res = "Ok") =>
                    /\ ev.res = "Ok"
                    /\ self'.next_key = Some(c.v)
                    /\ self'.map.elems = self.map.elems
              /\ (ev.op = "value" /\ ev.res = "Ok") =>
                    /\ OkKeyCalls(log) # {}
                    /\ self'.map.elems =
                          Append(self.map.elems,
                                 <<to_value(log[Latest(OkKeyCalls(log))].arg).v, c.v>>)
                    /\ self'.next_key = None
    /\ (phase = "open" /\ phase' = "ended") => last' = Ok(Map(self.map.elems))

\* C9: a key submitted while another is pending is accepted and replaces
\* it; each successful value submission appends exactly one pair, of the
\* most recently accepted key and that value, and clears the pending key;
\* end() with a key pending returns Ok(Map) without it.  So the Map has one
\* pair per successful value submission.
C9_PendingKeyRule ==
    /\ [](phase \in {"open", "ended"} =>
            Len(self.map.elems) = Cardinality(OkValueCalls(log)))
    /\ [](phase = "ended" =>
            /\ last.res = "Ok"
            /\ Len(last.v.m) = Cardinality(OkValueCalls(log)))
    /\ [][C9_Step]_vars

\* A key was superseded, one pair was completed and a trailing key was left
\* pending when the map ended.
C9_Witness ==
    /\ phase = "ended"
    /\ Len(log) = 4
    /\ log[1].op = "key" /\ log[1].arg = U8One /\ log[1].res = "Ok"
    /\ log[2].op = "key" /\ log[2].arg = StrA /\ log[2].res = "Ok" /\ log[2].pending
    /\ log[3].op = "value" /\ log[3].res = "Ok"
    /\ log[4].op = "key" /\ log[4].res = "Ok"
    /\ self.next_key.some
    /\ last.res = "Ok"
    /\ Len(last.v.m) = 1
    /\ last.v.m[1][1] = to_value(StrA).v

====
